---- MODULE Spec2Model ----
(***************************************************************************)
(* Model of strix/tools/browser: the browser_action dispatcher             *)
(* (browser_actions.py) and the storage-state normalizer                   *)
(* (storage_state_handler.py).                                             *)
(*                                                                         *)
(* Every entry point is a synchronous call.  A behaviour is a sequence of  *)
(* calls: from "idle" one entry point is invoked with inputs drawn from    *)
(* bounded sets, runs to completion ("done", with its outcome in ret),     *)
(* and the caller goes back to "idle".                                     *)
(*                                                                         *)
(* Python values:                                                          *)
(*   - an optional parameter of the dispatcher is <<>> (None) or <<v>>;    *)
(*   - an exception is [type, msg], msg a sequence of text fragments;      *)
(*   - the outcome of a call is [status |-> "return", value |-> v] or      *)
(*     [status |-> "raise", exc |-> e];                                    *)
(*   - a JSON value of the normalizer is a tagged record (see JSON below). *)
(***************************************************************************)
EXTENDS Integers, Sequences, FiniteSets

VARIABLES
    pc,     \* "idle" between calls, "done" when a call has completed
    op,     \* the entry point of the completed call
    arg,    \* its inputs (and the outcomes the environment produced for it)
    ret     \* its outcome

vars == <<pc, op, arg, ret>>

----------------------------------------------------------------------------
(* Bounds of the model.                                                    *)

\* At most this many of the optional parameters of browser_action are
\* supplied (differ from their default) in one invocation.
MaxSupplied == 2

\* At most this many entries in the "cookies" list / cookie array of a document.
MaxCookies == 2

----------------------------------------------------------------------------
(* Python scaffolding.                                                     *)

None == <<>>
Some(x) == <<x>>

\* bool(x) of an optional string parameter: None and "" are falsy.
Truthy(x) == x # None /\ x # Some("")

Exc(type, msg) == [type |-> type, msg |-> msg]
Return(v) == [status |-> "return", value |-> v]
RaiseExc(e) == [status |-> "raise", exc |-> e]
Pass == [status |-> "pass"]

\* The element of a singleton set.  "The({F(x) : x \in {e}})" is F(e) with e
\* computed once, the way a local variable holds an intermediate result.
The(S) == CHOOSE x \in S : TRUE

\* The exception classes the model distinguishes, and their base classes.
ExcTypes == {"ValueError", "RuntimeError", "NotImplementedError", "TypeError"}

ExcBases(type) ==
    {type, "Exception"} \cup
    CASE type = "NotImplementedError" -> {"RuntimeError"}
      [] type = "JSONDecodeError" -> {"ValueError"}
      [] type = "FileNotFoundError" -> {"OSError"}
      [] OTHER -> {}

\* Whether `except classes` catches an exception of class type.
Catches(classes, type) == ExcBases(type) \cap classes # {}

----------------------------------------------------------------------------
(* browser_actions.py                                                      *)

BrowserAction ==
    {"launch", "goto", "click", "type", "scroll_down", "scroll_up", "back",
     "forward", "new_tab", "switch_tab", "close_tab", "wait", "execute_js",
     "double_click", "hover", "press_key", "save_pdf", "get_console_logs",
     "view_source", "close", "list_tabs", "export_session"}

RequiredMsg(param, action_name) ==
    <<param, " parameter is required for ", action_name, " action">>

_validate_url(action_name, url) ==
    IF ~Truthy(url)
    THEN RaiseExc(Exc("ValueError", RequiredMsg("url", action_name)))
    ELSE Pass

_validate_coordinate(action_name, coordinate) ==
    IF ~Truthy(coordinate)
    THEN RaiseExc(Exc("ValueError", RequiredMsg("coordinate", action_name)))
    ELSE Pass

\* Mutant of _validate_text: text tested with "is None", so "" passes.
ValidateTextIsNone(action_name, text) ==
    IF text = None
    THEN RaiseExc(Exc("ValueError", RequiredMsg("text", action_name)))
    ELSE Pass

_validate_text(action_name, text) ==
    IF ~Truthy(text)
    THEN RaiseExc(Exc("ValueError", RequiredMsg("text", action_name)))
    ELSE Pass

_validate_tab_id(action_name, tab_id) ==
    IF ~Truthy(tab_id)
    THEN RaiseExc(Exc("ValueError", RequiredMsg("tab_id", action_name)))
    ELSE Pass

_validate_js_code(action_name, js_code) ==
    IF ~Truthy(js_code)
    THEN RaiseExc(Exc("ValueError", RequiredMsg("js_code", action_name)))
    ELSE Pass

\* Mutant of _validate_duration: duration tested for truthiness ("if not duration").
ValidateDurationTruthy(action_name, duration) ==
    IF duration = None \/ duration = Some(0)
    THEN RaiseExc(Exc("ValueError", RequiredMsg("duration", action_name)))
    ELSE Pass

\* duration is tested with "is None": 0 is a legal duration.
_validate_duration(action_name, duration) ==
    IF duration = None
    THEN RaiseExc(Exc("ValueError", RequiredMsg("duration", action_name)))
    ELSE Pass

_validate_key(action_name, key) ==
    IF ~Truthy(key)
    THEN RaiseExc(Exc("ValueError", RequiredMsg("key", action_name)))
    ELSE Pass

_validate_file_path(action_name, file_path) ==
    IF ~Truthy(file_path)
    THEN RaiseExc(Exc("ValueError", RequiredMsg("file_path", action_name)))
    ELSE Pass

\* A handler's outcome: what it returns or raises, and the backend calls made.
NoCall(outcome) == [out |-> outcome, calls |-> <<>>]

\* manager.<method>(args): the call is made, and the backend decides the
\* outcome (bo): it returns a result mapping or raises.
ManagerCall(bo, method, args) ==
    [out |-> bo, calls |-> <<[method |-> method, args |-> args]>>]

\* validate, then call: the call is only reached when validation passed.
Checked(validation, call) ==
    IF validation.status = "raise" THEN NoCall(validation) ELSE call

_handle_navigation_actions(bo, action, url, tab_id) ==
    CASE action = "launch" -> ManagerCall(bo, "launch_browser", <<url>>)
      [] action = "goto" ->
            Checked(_validate_url(action, url),
                    ManagerCall(bo, "goto_url", <<url[1], tab_id>>))
      [] action = "back" -> ManagerCall(bo, "back", <<tab_id>>)
      [] action = "forward" -> ManagerCall(bo, "forward", <<tab_id>>)
      [] OTHER ->
            NoCall(RaiseExc(Exc("ValueError",
                                <<"Unknown navigation action: ", action>>)))

_handle_interaction_actions(bo, action, coordinate, text, key, tab_id) ==
    CASE action \in {"click", "double_click", "hover"} ->
            LET action_map == [a \in {"click", "double_click", "hover"} |-> a]
            IN  Checked(_validate_coordinate(action, coordinate),
                        ManagerCall(bo, action_map[action],
                                    <<coordinate[1], tab_id>>))
      [] action \in {"scroll_down", "scroll_up"} ->
            LET direction == IF action = "scroll_down" THEN "down" ELSE "up"
            IN  ManagerCall(bo, "scroll", <<direction, tab_id>>)
      [] action = "type" ->
            Checked(_validate_text(action, text),
                    ManagerCall(bo, "type_text", <<text[1], tab_id>>))
      [] action = "press_key" ->
            Checked(_validate_key(action, key),
                    ManagerCall(bo, "press_key", <<key[1], tab_id>>))
      [] OTHER ->
            NoCall(RaiseExc(Exc("ValueError",
                                <<"Unknown interaction action: ", action>>)))

_raise_unknown_action(action) ==
    NoCall(RaiseExc(Exc("ValueError", <<"Unknown action: ", action>>)))

_handle_tab_actions(bo, action, url, tab_id) ==
    CASE action = "new_tab" -> ManagerCall(bo, "new_tab", <<url>>)
      [] action = "switch_tab" ->
            Checked(_validate_tab_id(action, tab_id),
                    ManagerCall(bo, "switch_tab", <<tab_id[1]>>))
      [] action = "close_tab" ->
            Checked(_validate_tab_id(action, tab_id),
                    ManagerCall(bo, "close_tab", <<tab_id[1]>>))
      [] action = "list_tabs" -> ManagerCall(bo, "list_tabs", <<>>)
      [] OTHER ->
            NoCall(RaiseExc(Exc("ValueError",
                                <<"Unknown tab action: ", action>>)))

_handle_utility_actions(bo, action, duration, js_code, file_path, tab_id, clear) ==
    CASE action = "wait" ->
            Checked(_validate_duration(action, duration),
                    ManagerCall(bo, "wait_browser", <<duration[1], tab_id>>))
      [] action = "execute_js" ->
            Checked(_validate_js_code(action, js_code),
                    ManagerCall(bo, "execute_js", <<js_code[1], tab_id>>))
      [] action = "save_pdf" ->
            Checked(_validate_file_path(action, file_path),
                    ManagerCall(bo, "save_pdf", <<file_path[1], tab_id>>))
      [] action = "get_console_logs" ->
            ManagerCall(bo, "get_console_logs", <<tab_id, clear>>)
      [] action = "view_source" -> ManagerCall(bo, "view_source", <<tab_id>>)
      [] action = "close" -> ManagerCall(bo, "close_browser", <<>>)
      [] OTHER ->
            NoCall(RaiseExc(Exc("ValueError",
                                <<"Unknown utility action: ", action>>)))

\* The body of the try block of browser_action.
Dispatch(bo, r) ==
    LET navigation_actions == {"launch", "goto", "back", "forward"}
        interaction_actions == {"click", "type", "double_click", "hover",
                                "press_key", "scroll_down", "scroll_up"}
        tab_actions == {"new_tab", "switch_tab", "close_tab", "list_tabs"}
        utility_actions == {"wait", "execute_js", "save_pdf",
                            "get_console_logs", "view_source", "close"}
    IN  CASE r.action \in navigation_actions ->
                _handle_navigation_actions(bo, r.action, r.url, r.tab_id)
          [] r.action \in interaction_actions ->
                _handle_interaction_actions(bo, r.action, r.coordinate, r.text,
                                            r.key, r.tab_id)
          [] r.action \in tab_actions ->
                _handle_tab_actions(bo, r.action, r.url, r.tab_id)
          [] r.action \in utility_actions ->
                _handle_utility_actions(bo, r.action, r.duration, r.js_code,
                                        r.file_path, r.tab_id, r.clear)
          [] r.action = "export_session" ->
                Checked(_validate_file_path(r.action, r.file_path),
                        ManagerCall(bo, "export_session", <<r.file_path[1]>>))
          [] OTHER -> _raise_unknown_action(r.action)

\* Mutant of DispatcherCatches: "except ValueError" alone.
CatchesValueErrorOnly == {"ValueError"}

\* The exception classes of the except clause of browser_action.
DispatcherCatches == {"ValueError", "RuntimeError"}

\* Mutant of ErrorRecord: the supplied tab_id is not reported.
ErrorRecordNoTab(e, tab_id) ==
    [error |-> e.msg, tab_id |-> None, screenshot |-> "", is_running |-> FALSE]

\* The record the except clause returns.
ErrorRecord(e, tab_id) ==
    [error |-> e.msg, tab_id |-> tab_id, screenshot |-> "", is_running |-> FALSE]

\* browser_action(action, url, ..., clear), given what get_browser_tab_manager
\* does (mo) and what the backend does when one of its methods is called (bo).
\* The manager is acquired before the try block is entered.
browser_action(mo, bo, r) ==
    IF mo.status = "raise"
    THEN NoCall(mo)
    ELSE The({IF d.out.status = "raise" /\ Catches(DispatcherCatches, d.out.exc.type)
              THEN [out |-> Return(ErrorRecord(d.out.exc, r.tab_id)),
                    calls |-> d.calls]
              ELSE d :
              d \in {Dispatch(bo, r)}})

----------------------------------------------------------------------------
(* The inputs of browser_action.                                           *)

\* Names the caller may pass: the vocabulary and two names outside it.
ActionNames == BrowserAction \cup {"", "refresh"}

StrParams == {"url", "coordinate", "text", "tab_id", "js_code", "key", "file_path"}

SampleOf(p) ==
    CASE p = "url" -> "http://a"
      [] p = "coordinate" -> "10,20"
      [] p = "text" -> "hello"
      [] p = "tab_id" -> "tab_1"
      [] p = "js_code" -> "1+1"
      [] p = "key" -> "Enter"
      [] p = "file_path" -> "/tmp/out"

\* The values a supplied parameter may take: a string parameter is empty or
\* a sample value, duration is 0 or 5, clear is True.
SuppliedValue(p, i) ==
    CASE p = "duration" -> IF i = 1 THEN Some(0) ELSE Some(5)
      [] p = "clear" -> TRUE
      [] OTHER -> IF i = 1 THEN Some("") ELSE Some(SampleOf(p))

\* The default of a parameter that is not supplied.
DefaultValue(p) == IF p = "clear" THEN FALSE ELSE None

Params == StrParams \cup {"duration", "clear"}

\* The request with the parameters of DOMAIN f supplied, as f chooses.
RequestOf(action, f) ==
    [p \in Params \cup {"action"} |->
        IF p = "action" THEN action
        ELSE IF p \in DOMAIN f THEN SuppliedValue(p, f[p])
        ELSE DefaultValue(p)]

Requests ==
    {RequestOf(a, f) :
        a \in ActionNames,
        f \in UNION {[P -> {1, 2}] :
                        P \in {Q \in SUBSET Params : Cardinality(Q) <= MaxSupplied}}}

\* What a backend method may return: an opaque result mapping.
BackendResults ==
    {[tab_id |-> "tab_1", screenshot |-> "png", is_running |-> TRUE],
     [tab_id |-> "tab_2", screenshot |-> "png", is_running |-> TRUE,
      js_result |-> "2"]}

Outcomes(results, msg) ==
    {Return(v) : v \in results} \cup {RaiseExc(Exc(t, msg)) : t \in ExcTypes}

BackendOutcomes == Outcomes(BackendResults, <<"backend failure">>)
ManagerOutcomes == Outcomes({"manager"}, <<"no manager">>)

\* The outcome of the backend is part of the call only when a call is made.
Unused == [status |-> "unused"]

----------------------------------------------------------------------------
(* JSON values, as json.load builds them.  A float is held in tenths       *)
(* (12345.7 is JFloat(123457)); JNaN is the float nan, which the json      *)
(* module reads from the literal NaN.  A string is a sequence of           *)
(* characters; a character outside ASCII is written by its code point      *)
(* ("U+00B2" is superscript two).                                          *)

JNull == [t |-> "null"]
JBool(b) == [t |-> "bool", b |-> b]
JInt(n) == [t |-> "int", n |-> n]
JFloat(k) == [t |-> "float", nan |-> FALSE, tenths |-> k]
JNaN == [t |-> "float", nan |-> TRUE, tenths |-> 0]
JStr(s) == [t |-> "str", s |-> s]
JList(l) == [t |-> "list", l |-> l]
JDict(d) == [t |-> "dict", d |-> d]

\* dict.get(key, default)
Get(d, key, default) == IF key \in DOMAIN d THEN d[key] ELSE default

UpperCase ==
    <<"A", "B", "C", "D", "E", "F", "G", "H", "I", "J", "K", "L", "M",
      "N", "O", "P", "Q", "R", "S", "T", "U", "V", "W", "X", "Y", "Z">>
LowerCase ==
    <<"a", "b", "c", "d", "e", "f", "g", "h", "i", "j", "k", "l", "m",
      "n", "o", "p", "q", "r", "s", "t", "u", "v", "w", "x", "y", "z">>
Whitespace == {" ", "\t", "\n"}
DecimalDigits == <<"0", "1", "2", "3", "4", "5", "6", "7", "8", "9">>

IndexOf(seq, c) == CHOOSE i \in 1..Len(seq) : seq[i] = c
Has(seq, c) == \E i \in 1..Len(seq) : seq[i] = c

LowerChar(c) == IF Has(UpperCase, c) THEN LowerCase[IndexOf(UpperCase, c)] ELSE c
UpperChar(c) == IF Has(LowerCase, c) THEN UpperCase[IndexOf(LowerCase, c)] ELSE c

\* str.lower()
Lower(s) == [i \in 1..Len(s) |-> LowerChar(s[i])]

\* The title-case form of a character.  It may be longer than the character:
\* U+0149 (n preceded by apostrophe) becomes U+02BC (modifier apostrophe)
\* followed by N.
TitleChar(c) == IF c = "U+0149" THEN <<"U+02BC", "N">> ELSE <<UpperChar(c)>>

\* str.capitalize(): the first character title-cased, the rest lower-cased.
Capitalize(s) == IF s = <<>> THEN <<>> ELSE TitleChar(Head(s)) \o Lower(Tail(s))

RECURSIVE LStrip(_)
LStrip(s) ==
    IF s # <<>> /\ Head(s) \in Whitespace THEN LStrip(Tail(s)) ELSE s

RECURSIVE RStrip(_)
RStrip(s) ==
    IF s # <<>> /\ s[Len(s)] \in Whitespace
    THEN RStrip(SubSeq(s, 1, Len(s) - 1))
    ELSE s

\* str.strip()
Strip(s) == RStrip(LStrip(s))

\* str.isdigit(): non-empty and every character a digit.  Superscript two
\* stands for the characters that are digits without being decimal.
IsDigit(s) ==
    /\ s # <<>>
    /\ \A i \in 1..Len(s) : Has(DecimalDigits, s[i]) \/ s[i] = "U+00B2"

RECURSIVE DecimalValue(_)
DecimalValue(s) ==
    IF s = <<>> THEN 0
    ELSE 10 * DecimalValue(SubSeq(s, 1, Len(s) - 1))
           + (IndexOf(DecimalDigits, s[Len(s)]) - 1)

\* int(s) of a string that passed isdigit(): a non-decimal digit is refused.
IntOfStr(s) ==
    IF \A i \in 1..Len(s) : Has(DecimalDigits, s[i])
    THEN Return(JInt(DecimalValue(s)))
    ELSE RaiseExc(Exc("ValueError", <<"invalid literal for int()">>))

\* int(x) of a float: truncation toward zero; nan cannot be converted.
IntOfFloat(x) ==
    IF x.nan
    THEN RaiseExc(Exc("ValueError", <<"cannot convert float NaN to integer">>))
    ELSE Return(JInt(IF x.tenths >= 0
                     THEN x.tenths \div 10
                     ELSE -((-x.tenths) \div 10)))

\* x == 0 in Python: true of the int 0, the float 0.0 and False.
EqZero(x) ==
    \/ x.t = "int" /\ x.n = 0
    \/ x.t = "float" /\ ~x.nan /\ x.tenths = 0
    \/ x.t = "bool" /\ x.b = FALSE

----------------------------------------------------------------------------
(* storage_state_handler.py                                                *)

\* Mutant of NormalizeExpires: "expirationDate" is read before "expires".
NormalizeExpiresDateFirst(cookie) ==
    LET expires == Get(cookie, "expirationDate", Get(cookie, "expires", JInt(-1)))
    IN  The({IF coerced.status = "raise" THEN coerced
             ELSE Return(IF ~EqZero(coerced.value) THEN coerced.value
                         ELSE JInt(-1)) :
             coerced \in
                {IF expires.t = "str" /\ IsDigit(expires.s) THEN IntOfStr(expires.s)
                 ELSE IF expires.t = "float" THEN IntOfFloat(expires)
                 ELSE Return(expires)}})

\* _normalize_cookie, the expiration date: the value stored under "expires".
NormalizeExpires(cookie) ==
    LET expires == Get(cookie, "expires", Get(cookie, "expirationDate", JInt(-1)))
    IN  The({IF coerced.status = "raise" THEN coerced
             ELSE Return(IF ~EqZero(coerced.value) THEN coerced.value
                         ELSE JInt(-1)) :
             coerced \in
                {IF expires.t = "str" /\ IsDigit(expires.s) THEN IntOfStr(expires.s)
                 ELSE IF expires.t = "float" THEN IntOfFloat(expires)
                 ELSE Return(expires)}})

same_site_map(key) ==
    CASE key = <<"l", "a", "x">> -> Some(<<"L", "a", "x">>)
      [] key = <<"s", "t", "r", "i", "c", "t">> -> Some(<<"S", "t", "r", "i", "c", "t">>)
      [] key = <<"n", "o", "n", "e">> -> Some(<<"N", "o", "n", "e">>)
      [] key = <<"n", "o", "_", "r", "e", "s", "t", "r", "i", "c", "t", "i", "o", "n">> ->
            Some(<<"N", "o", "n", "e">>)
      [] key = <<"u", "n", "s", "p", "e", "c", "i", "f", "i", "e", "d">> ->
            Some(<<"L", "a", "x">>)
      [] OTHER -> None

\* Mutant of NormalizeSameSite: the value is lower-cased but not stripped.
NormalizeSameSiteNoStrip(cookie) ==
    LET same_site == Get(cookie, "sameSite", JNull)
    IN  IF same_site.t = "str"
        THEN LET normalized_same_site == Lower(same_site.s)
             IN  IF normalized_same_site = <<>>
                 THEN JStr(<<"L", "a", "x">>)
                 ELSE IF same_site_map(normalized_same_site) # None
                      THEN JStr(same_site_map(normalized_same_site)[1])
                      ELSE JStr(Capitalize(same_site.s))
        ELSE JStr(<<"L", "a", "x">>)

\* _normalize_cookie, sameSite: the value stored under "sameSite".
NormalizeSameSite(cookie) ==
    LET same_site == Get(cookie, "sameSite", JNull)
    IN  IF same_site.t = "str"
        THEN LET normalized_same_site == Lower(Strip(same_site.s))
             IN  IF normalized_same_site = <<>>
                 THEN JStr(<<"L", "a", "x">>)
                 ELSE IF same_site_map(normalized_same_site) # None
                      THEN JStr(same_site_map(normalized_same_site)[1])
                      ELSE JStr(Capitalize(same_site.s))
        ELSE JStr(<<"L", "a", "x">>)

\* _normalize_cookie(cookie): cookie.get fails on anything that is no dict.
_normalize_cookie(cookie) ==
    IF cookie.t # "dict"
    THEN RaiseExc(Exc("AttributeError", <<"object has no attribute 'get'">>))
    ELSE LET c == cookie.d
         IN  The({IF expires.status = "raise" THEN expires
                  ELSE Return(JDict(
                         [name |-> Get(c, "name", JStr(<<>>)),
                          value |-> Get(c, "value", JStr(<<>>)),
                          domain |-> Get(c, "domain", JStr(<<>>)),
                          path |-> Get(c, "path", JStr(<<"/">>)),
                          httpOnly |-> Get(c, "httpOnly", JBool(FALSE)),
                          secure |-> Get(c, "secure", JBool(FALSE)),
                          expires |-> expires.value,
                          sameSite |-> NormalizeSameSite(c)])) :
                  expires \in {NormalizeExpires(c)}})

_detect_format(data) ==
    IF /\ data.t = "dict"
       /\ "cookies" \in DOMAIN data.d
       /\ Get(data.d, "cookies", JNull).t = "list"
    THEN "playwright"
    ELSE IF /\ data.t = "list"
            /\ Len(data.l) > 0
            /\ data.l[1].t = "dict"
            /\ "name" \in DOMAIN data.l[1].d
            /\ "value" \in DOMAIN data.l[1].d
    THEN "cookie_array"
    ELSE "unknown"

\* [_normalize_cookie(cookie) for cookie in cookies]: the first element that
\* raises ends the comprehension.
NormalizeAll(cookies) ==
    The({LET bad == {i \in 1..Len(cookies) : outs[i].status = "raise"}
         IN  IF bad # {}
             THEN outs[CHOOSE i \in bad : \A j \in bad : i <= j]
             ELSE Return(JList([i \in 1..Len(cookies) |-> outs[i].value])) :
         outs \in {[i \in 1..Len(cookies) |-> _normalize_cookie(cookies[i])]}})

_convert_cookie_array_to_playwright(cookies) ==
    The({IF normalized_cookies.status = "raise" THEN normalized_cookies
         ELSE Return(JDict([cookies |-> normalized_cookies.value,
                            origins |-> JList(<<>>)])) :
         normalized_cookies \in {NormalizeAll(cookies)}})

UnsupportedFormat ==
    Exc("ValueError",
        <<"Unsupported cookie format. Supported formats:",
          "Playwright storage_state (native)",
          "Cookie-Editor JSON export",
          "EditThisCookie JSON export",
          "JSON array of cookies">>)

_auto_convert_to_playwright(data) ==
    LET format_type == _detect_format(data)
    IN  CASE format_type = "playwright" ->
                The({IF normalized_cookies.status = "raise" THEN normalized_cookies
                     ELSE Return(JDict(
                            [cookies |-> normalized_cookies.value,
                             origins |-> Get(data.d, "origins", JList(<<>>))])) :
                     normalized_cookies \in
                        {NormalizeAll(Get(data.d, "cookies", JList(<<>>)).l)}})
          [] format_type = "cookie_array" ->
                _convert_cookie_array_to_playwright(data.l)
          [] OTHER -> RaiseExc(UnsupportedFormat)

\* len(x): defined on lists, strings and dicts only.
PyLen(x) ==
    IF x.t = "list" THEN Return(Len(x.l))
    ELSE IF x.t = "str" THEN Return(Len(x.s))
    ELSE IF x.t = "dict" THEN Return(Cardinality(DOMAIN x.d))
    ELSE RaiseExc(Exc("TypeError", <<"object has no len()">>))

\* The try block of load_storage_state: open and parse the file, convert,
\* count the cookies and the origins for the log line.
LoadBody(file) ==
    CASE file.kind = "unreadable" ->
            RaiseExc(Exc("OSError", <<"cannot read file">>))
      [] file.kind = "invalid_json" ->
            RaiseExc(Exc("JSONDecodeError", <<"Expecting value">>))
      [] OTHER ->
            The({IF state.status = "raise" THEN state
                 ELSE LET origins_count ==
                              PyLen(Get(state.value.d, "origins", JList(<<>>)))
                      IN  IF origins_count.status = "raise" THEN origins_count
                          ELSE state :
                 state \in {_auto_convert_to_playwright(file.data)}})

\* Mutant of load_storage_state: one handler, "except Exception", for
\* everything the try block raises.
LoadStorageStateOneHandler(file) ==
    IF file.kind = "missing"
    THEN RaiseExc(Exc("FileNotFoundError",
                      <<"Storage state file not found: ", file.path>>))
    ELSE The({IF body.status = "raise" /\ Catches({"Exception"}, body.exc.type)
              THEN RaiseExc(Exc("RuntimeError",
                                <<"Storage state load failed: ">> \o body.exc.msg))
              ELSE body :
              body \in {LoadBody(file)}})

\* load_storage_state(state_path), given what is at the path.
load_storage_state(file) ==
    IF file.kind = "missing"
    THEN RaiseExc(Exc("FileNotFoundError",
                      <<"Storage state file not found: ", file.path>>))
    ELSE The({IF body.status = "raise" /\ Catches({"JSONDecodeError"}, body.exc.type)
              THEN RaiseExc(Exc("RuntimeError",
                                <<"Storage state file is not valid JSON: ">>
                                  \o body.exc.msg))
              ELSE IF body.status = "raise" /\ Catches({"Exception"}, body.exc.type)
              THEN RaiseExc(Exc("RuntimeError",
                                <<"Storage state load failed: ">> \o body.exc.msg))
              ELSE body :
              body \in {LoadBody(file)}})

----------------------------------------------------------------------------
(* The inputs of the normalizer.                                           *)

\* A key that a dict does not hold.
Absent == [t |-> "absent"]

\* The dict holding the keys of f whose value is not Absent.
MkDict(f) == JDict([k \in {k \in DOMAIN f : f[k] # Absent} |-> f[k]])

\* The six fields _normalize_cookie copies: none given, all given with
\* canonical values, all given with other JSON types, some given.
SimpleProfiles ==
    {[name |-> Absent, value |-> Absent, domain |-> Absent, path |-> Absent,
      httpOnly |-> Absent, secure |-> Absent],
     [name |-> JStr(<<"s", "i", "d">>), value |-> JStr(<<"4", "2">>),
      domain |-> JStr(<<".", "a">>), path |-> JStr(<<"/", "p">>),
      httpOnly |-> JBool(TRUE), secure |-> JBool(TRUE)],
     [name |-> JInt(7), value |-> JNull, domain |-> JStr(<<>>),
      path |-> JStr(<<>>), httpOnly |-> JStr(<<"y", "e", "s">>),
      secure |-> JInt(1)],
     [name |-> JStr(<<"s", "i", "d">>), value |-> JStr(<<>>), domain |-> Absent,
      path |-> Absent, httpOnly |-> JBool(FALSE), secure |-> Absent]}

ExpiresValues ==
    {Absent, JNull, JBool(FALSE), JBool(TRUE),
     JInt(0), JInt(-1), JInt(12345),
     JFloat(0), JFloat(5), JFloat(-5), JFloat(-15), JFloat(123450),
     JFloat(123457), JNaN,
     JStr(<<>>), JStr(<<"0">>), JStr(<<"0", "0", "7">>),
     JStr(<<"1", "2", "3", "4", "5">>), JStr(<<"-", "1">>),
     JStr(<<"1", "2", ".", "5">>), JStr(<<"S", "e", "s", "s", "i", "o", "n">>),
     JStr(<<"U+00B2">>)}

ExpirationDateValues ==
    {Absent, JInt(0), JInt(777), JFloat(123457), JStr(<<"9", "9">>)}

SameSiteValues ==
    {Absent, JNull, JBool(TRUE), JInt(1),
     JStr(<<>>), JStr(<<" ">>),
     JStr(<<"L", "a", "x">>), JStr(<<"l", "a", "x">>), JStr(<<"L", "A", "X">>),
     JStr(<<" ", "l", "a", "x", " ">>),
     JStr(<<"S", "t", "r", "i", "c", "t">>), JStr(<<"S", "T", "R", "I", "C", "T">>),
     JStr(<<"N", "o", "n", "e">>), JStr(<<"n", "o", "n", "e">>),
     JStr(<<"n", "o", "_", "r", "e", "s", "t", "r", "i", "c", "t", "i", "o", "n">>),
     JStr(<<"N", "O", "_", "R", "E", "S", "T", "R", "I", "C", "T", "I", "O", "N">>),
     JStr(<<"u", "n", "s", "p", "e", "c", "i", "f", "i", "e", "d">>),
     JStr(<<"U", "n", "s", "p", "e", "c", "i", "f", "i", "e", "d">>),
     JStr(<<"c", "u", "s", "t", "o", "m", "_", "v", "a", "l", "u", "e">>),
     JStr(<<"C", "u", "s", "t", "o", "m", "_", "v", "a", "l", "u", "e">>),
     JStr(<<"l", "a", "x", "x">>), JStr(<<" ", "f", "O", "o">>),
     JStr(<<"s", "A", "M", "E", "-", "s", "i", "t", "e">>), JStr(<<"U+0149">>)}

CookieOf(profile, expires, expirationDate, sameSite) ==
    MkDict([name |-> profile.name, value |-> profile.value,
            domain |-> profile.domain, path |-> profile.path,
            httpOnly |-> profile.httpOnly, secure |-> profile.secure,
            expires |-> expires, expirationDate |-> expirationDate,
            sameSite |-> sameSite])

\* What _normalize_cookie may be handed: a cookie record, or a list element
\* that is no record at all.
CookieInputs ==
    {CookieOf(p, e, d, s) :
        p \in SimpleProfiles, e \in ExpiresValues,
        d \in ExpirationDateValues, s \in SameSiteValues}
    \cup {JInt(1), JNull, JStr(<<"a">>), JList(<<>>)}

\* The elements the lists of a document are built from.
CanonicalCookie ==
    JDict([name |-> JStr(<<"s", "i", "d">>), value |-> JStr(<<"4", "2">>),
           domain |-> JStr(<<".", "a">>), path |-> JStr(<<"/">>),
           httpOnly |-> JBool(TRUE), secure |-> JBool(FALSE),
           expires |-> JInt(12345), sameSite |-> JStr(<<"L", "a", "x">>)])

ElementPool ==
    {CanonicalCookie,
     JDict([name |-> JStr(<<"a">>), value |-> JStr(<<"b">>),
            expires |-> JStr(<<"1", "2", "3", "4", "5">>),
            sameSite |-> JStr(<<"S", "T", "R", "I", "C", "T">>)]),
     JDict([name |-> JStr(<<"a">>), value |-> JStr(<<"b">>),
            domain |-> JStr(<<".", "a">>), hostOnly |-> JBool(FALSE),
            expirationDate |-> JFloat(5),
            sameSite |-> JStr(<<"n", "o", "_", "r", "e", "s", "t", "r", "i", "c", "t", "i", "o", "n">>)]),
     JDict([name |-> JStr(<<"a">>), value |-> JStr(<<"b">>),
            expires |-> JStr(<<"S", "e", "s", "s", "i", "o", "n">>),
            sameSite |-> JStr(<<"L", "a", "x">>)]),
     JDict([domain |-> JStr(<<".", "a">>),
            sameSite |-> JStr(<<"c", "u", "s", "t", "o", "m", "_", "v", "a", "l", "u", "e">>)]),
     JInt(1)}

RECURSIVE SeqsUpTo(_, _)
SeqsUpTo(S, n) ==
    IF n = 0 THEN {<<>>}
    ELSE LET shorter == SeqsUpTo(S, n - 1)
         IN  shorter \cup {Append(q, x) : q \in shorter, x \in S}

ElementLists == SeqsUpTo(ElementPool, MaxCookies)

OriginsValues ==
    {Absent, JList(<<>>), JList(<<JDict([origin |-> JStr(<<"h">>)])>>), JNull}

\* The documents json.load may produce.
Documents ==
    {MkDict([cookies |-> c, origins |-> o, foo |-> f]) :
        c \in {JList(l) : l \in ElementLists} \cup {Absent, JNull, JStr(<<"x">>)},
        o \in OriginsValues,
        f \in {Absent, JInt(1)}}
    \cup {JList(l) : l \in ElementLists}
    \cup {JNull, JInt(1), JStr(<<"x">>)}

\* What load_storage_state may find at state_path.
Files ==
    {[kind |-> k, path |-> "state.json", data |-> JNull] :
        k \in {"missing", "unreadable", "invalid_json"}}
    \cup {[kind |-> "json", path |-> "state.json", data |-> d] : d \in Documents}

----------------------------------------------------------------------------
(* The state machine.                                                      *)

Init ==
    /\ pc = "idle"
    /\ op = "none"
    /\ arg = <<>>
    /\ ret = <<>>

BrowserActionCall ==
    /\ pc = "idle"
    /\ \E r \in Requests, mo \in ManagerOutcomes, bo \in BackendOutcomes :
         LET res == browser_action(mo, bo, r)
         IN  /\ ret' = res
             /\ arg' = [request |-> r,
                        manager |-> mo,
                        backend |-> IF res.calls = <<>> THEN Unused ELSE bo]
    /\ op' = "browser_action"
    /\ pc' = "done"

NormalizeCookieCall ==
    /\ pc = "idle"
    /\ \E c \in CookieInputs :
         /\ arg' = c
         /\ ret' = _normalize_cookie(c)
    /\ op' = "_normalize_cookie"
    /\ pc' = "done"

AutoConvertCall ==
    /\ pc = "idle"
    /\ \E d \in Documents :
         /\ arg' = d
         /\ ret' = _auto_convert_to_playwright(d)
    /\ op' = "_auto_convert_to_playwright"
    /\ pc' = "done"

LoadStorageStateCall ==
    /\ pc = "idle"
    /\ \E f \in Files :
         /\ arg' = f
         /\ ret' = load_storage_state(f)
    /\ op' = "load_storage_state"
    /\ pc' = "done"

\* The caller takes the outcome; nothing of the call is kept.
Finish ==
    /\ pc = "done"
    /\ pc' = "idle"
    /\ op' = "none"
    /\ arg' = <<>>
    /\ ret' = <<>>

Next ==
    \/ BrowserActionCall
    \/ NormalizeCookieCall
    \/ AutoConvertCall
    \/ LoadStorageStateCall
    \/ Finish

Spec == Init /\ [][Next]_vars

----------------------------------------------------------------------------
(* The dispatcher's contract, as the specification states it.              *)

Done(name) == pc = "done" /\ op = name

\* The parameter each action requires ("" when it requires none).
RequiredParam(action) ==
    CASE action = "goto" -> "url"
      [] action \in {"click", "double_click", "hover"} -> "coordinate"
      [] action = "type" -> "text"
      [] action = "press_key" -> "key"
      [] action \in {"switch_tab", "close_tab"} -> "tab_id"
      [] action = "wait" -> "duration"
      [] action = "execute_js" -> "js_code"
      [] action \in {"save_pdf", "export_session"} -> "file_path"
      [] OTHER -> ""

\* A required parameter is present: given and, unless it is the duration
\* (where 0 is legal), not empty.
Present(r, p) ==
    IF p = "duration" THEN r[p] # None ELSE r[p] # None /\ r[p] # Some("")

\* The backend method each of the 22 action names is mapped to.
MethodOf(action) ==
    CASE action = "launch" -> "launch_browser"
      [] action = "goto" -> "goto_url"
      [] action \in {"scroll_down", "scroll_up"} -> "scroll"
      [] action = "type" -> "type_text"
      [] action = "wait" -> "wait_browser"
      [] action = "close" -> "close_browser"
      [] action \in {"back", "forward", "click", "double_click", "hover",
                     "press_key", "new_tab", "switch_tab", "close_tab",
                     "list_tabs", "execute_js", "save_pdf", "get_console_logs",
                     "view_source", "export_session"} -> action

Vocabulary ==
    {"launch", "goto", "back", "forward", "click", "double_click", "hover",
     "scroll_down", "scroll_up", "type", "press_key", "new_tab", "switch_tab",
     "close_tab", "list_tabs", "wait", "execute_js", "save_pdf",
     "get_console_logs", "view_source", "close", "export_session"}

Mentions(msg, x) == \E i \in 1..Len(msg) : msg[i] = x

IsErrorRecord(v) ==
    /\ DOMAIN v = {"error", "tab_id", "screenshot", "is_running"}
    /\ v.screenshot = ""
    /\ v.is_running = FALSE

\* An invocation that got its manager: the try block was entered.
Dispatched == Done("browser_action") /\ arg.manager.status = "return"

\* C1: an action of the vocabulary invoked with its required parameters
\* present makes exactly one backend call, to the method mapped to the action
\* (scroll_down and scroll_up call scroll with "down" and "up"), and what that
\* method returns is returned unchanged; wait with duration 0 included.  The
\* invocation is one whose manager was acquired.
C1_OneBackendCall ==
    (/\ Dispatched
     /\ arg.request.action \in Vocabulary
     /\ \/ RequiredParam(arg.request.action) = ""
        \/ Present(arg.request, RequiredParam(arg.request.action)))
    => /\ arg.request.action \in BrowserAction
       /\ Len(ret.calls) = 1
       /\ ret.calls[1].method = MethodOf(arg.request.action)
       /\ arg.request.action = "scroll_down" => ret.calls[1].args[1] = "down"
       /\ arg.request.action = "scroll_up" => ret.calls[1].args[1] = "up"
       /\ arg.backend.status = "return" => ret.out = arg.backend

C1_Witness ==
    /\ Dispatched
    /\ arg.request.action = "wait"
    /\ arg.request.duration = Some(0)
    /\ ret.calls = <<[method |-> "wait_browser", args |-> <<0, None>>]>>
    /\ arg.backend.status = "return"
    /\ ret.out = arg.backend

\* C2: an action invoked without its required parameter (omitted or empty)
\* returns a failure record whose error message names the parameter and the
\* action, and no backend method is called.
C2_MissingParameter ==
    (/\ Dispatched
     /\ RequiredParam(arg.request.action) # ""
     /\ ~Present(arg.request, RequiredParam(arg.request.action)))
    => /\ ret.calls = <<>>
       /\ ret.out.status = "return"
       /\ IsErrorRecord(ret.out.value)
       /\ Mentions(ret.out.value.error, RequiredParam(arg.request.action))
       /\ Mentions(ret.out.value.error, arg.request.action)

C2_Witness ==
    /\ Dispatched
    /\ arg.request.action = "switch_tab"
    /\ arg.request.tab_id = Some("")
    /\ ret.calls = <<>>
    /\ ret.out.status = "return"
    /\ ret.out.value.error =
         <<"tab_id", " parameter is required for ", "switch_tab", " action">>

\* The classes of the two recognized error kinds (invalid-argument and
\* operation-failure), subclasses included.
RecognizedKinds == {"ValueError", "RuntimeError", "NotImplementedError"}

\* C3 as stated: whatever the action, the parameters and the outcome of the
\* backend or of the acquisition of the manager, the caller receives a
\* successful result or a structured error record; no exception propagates.
C3_NothingEscapes ==
    Done("browser_action")
    => /\ ret.out.status = "return"
       /\ ret.out.value \in BackendResults \/ IsErrorRecord(ret.out.value)

\* C3 amended: an exception propagates out of browser_action exactly when
\* the acquisition of the manager raises (any kind) or a backend method raises
\* an error that is neither invalid-argument nor operation-failure; the
\* exception that propagates is the one raised.  Every other invocation
\* returns the backend's result or a structured error record.
C3_OnlyRecognizedKindsAreCaught ==
    Done("browser_action")
    => LET escapes ==
               \/ arg.manager.status = "raise"
               \/ /\ arg.backend.status = "raise"
                  /\ arg.backend.exc.type \notin RecognizedKinds
       IN  IF escapes
           THEN /\ ret.out.status = "raise"
                /\ ret.out = IF arg.manager.status = "raise"
                             THEN arg.manager ELSE arg.backend
           ELSE /\ ret.out.status = "return"
                /\ IF arg.backend.status = "return"
                   THEN ret.out = arg.backend
                   ELSE IsErrorRecord(ret.out.value)

C3_Witness ==
    /\ Dispatched
    /\ arg.backend.status = "raise"
    /\ arg.backend.exc.type = "RuntimeError"
    /\ Len(ret.calls) = 1
    /\ ret.out.status = "return"
    /\ IsErrorRecord(ret.out.value)
    /\ ret.out.value.error = arg.backend.exc.msg

\* C4: an action name outside the vocabulary returns, without any backend
\* call, the record {error, tab_id, screenshot, is_running} whose error names
\* the action as unknown, whose tab_id is the one supplied, whose screenshot
\* is empty and whose is_running is false.
C4_UnknownAction ==
    (Dispatched /\ arg.request.action \notin Vocabulary)
    => /\ ret.calls = <<>>
       /\ ret.out.status = "return"
       /\ IsErrorRecord(ret.out.value)
       /\ ret.out.value.error = <<"Unknown action: ", arg.request.action>>
       /\ ret.out.value.tab_id = arg.request.tab_id

C4_Witness ==
    /\ Dispatched
    /\ arg.request.action = "refresh"
    /\ arg.request.tab_id = Some("tab_1")
    /\ ret.calls = <<>>
    /\ ret.out = Return([error |-> <<"Unknown action: ", "refresh">>,
                         tab_id |-> Some("tab_1"), screenshot |-> "",
                         is_running |-> FALSE])

----------------------------------------------------------------------------
(* The normalizer's contract, as the specification states it.              *)

Lax == JStr(<<"L", "a", "x">>)
Strict == JStr(<<"S", "t", "r", "i", "c", "t">>)
NoneSite == JStr(<<"N", "o", "n", "e">>)
CanonicalSameSite == {Lax, Strict, NoneSite}

\* A call of _normalize_cookie on a cookie record that produced a record.
Normalized == Done("_normalize_cookie") /\ ret.status = "return"

\* The name a sameSite string spells once trimmed, case ignored.
SameSiteKey(x) == Lower(Strip(x.s))

\* C5 as stated: whatever the sameSite of the input, the sameSite produced is
\* Lax, Strict or None; unknown and non-string values become Lax.
C5_SameSiteAlwaysCanonical ==
    Normalized
    => LET given == Get(arg.d, "sameSite", JNull)
           out == ret.value.d.sameSite
       IN  /\ out \in CanonicalSameSite
           /\ (given.t # "str" \/ same_site_map(SameSiteKey(given)) = None)
                => out = Lax

\* C5 amended: the sameSite produced is Lax, Strict or None when the input
\* value is absent, not a string, empty or blank, or spells, case ignored and
\* trimmed, one of lax, strict, none, no_restriction, unspecified (absent,
\* non-string, empty, blank, lax and unspecified give Lax; strict gives Strict;
\* none and no_restriction give None).  Any other string is passed through
\* capitalized (str.capitalize of the value as given), whatever that is.
C5_SameSiteCanonicalOrCapitalized ==
    Normalized
    => LET given == Get(arg.d, "sameSite", JNull)
           out == ret.value.d.sameSite
       IN  IF given.t # "str" THEN out = Lax
           ELSE LET key == SameSiteKey(given)
                IN  CASE key = <<>> -> out = Lax
                      [] key \in {<<"l", "a", "x">>,
                                  <<"u", "n", "s", "p", "e", "c", "i", "f", "i", "e", "d">>} ->
                            out = Lax
                      [] key = <<"s", "t", "r", "i", "c", "t">> -> out = Strict
                      [] key \in {<<"n", "o", "n", "e">>,
                                  <<"n", "o", "_", "r", "e", "s", "t", "r", "i", "c", "t", "i", "o", "n">>} ->
                            out = NoneSite
                      [] OTHER -> out = JStr(Capitalize(given.s))

C5_Witness ==
    /\ Normalized
    /\ Get(arg.d, "sameSite", JNull) =
         JStr(<<"c", "u", "s", "t", "o", "m", "_", "v", "a", "l", "u", "e">>)
    /\ ret.value.d.sameSite =
         JStr(<<"C", "u", "s", "t", "o", "m", "_", "v", "a", "l", "u", "e">>)

\* What the document is, by the detection order: native before cookie array.
IsNative(d) ==
    /\ d.t = "dict"
    /\ "cookies" \in DOMAIN d.d
    /\ d.d["cookies"].t = "list"

IsCookieArray(d) ==
    /\ ~IsNative(d)
    /\ d.t = "list"
    /\ d.l # <<>>
    /\ d.l[1].t = "dict"
    /\ {"name", "value"} \subseteq DOMAIN d.l[1].d

Enumerates(msg) ==
    /\ Mentions(msg, "Playwright storage_state (native)")
    /\ Mentions(msg, "Cookie-Editor JSON export")
    /\ Mentions(msg, "EditThisCookie JSON export")
    /\ Mentions(msg, "JSON array of cookies")

\* Why a load fails, when it fails for one of the three causes of C6.
CauseOf(file) ==
    CASE file.kind = "missing" -> "missing"
      [] file.kind = "invalid_json" -> "malformed"
      [] file.kind = "json" /\ ~IsNative(file.data) /\ ~IsCookieArray(file.data) ->
            "unsupported"
      [] OTHER -> "other"

\* C6 as stated: a missing file, a file that is not valid JSON and a document
\* of an unrecognized shape each make load_storage_state raise, the error
\* for the unrecognized shape enumerating the supported formats; the kind of
\* the error raised for one of the three causes is never the kind raised for
\* another of them; in every other case the normalized state is returned.
C6_ThreeDistinctKinds ==
    Done("load_storage_state")
    => IF CauseOf(arg) = "other"
       THEN /\ ret.status = "return"
            /\ ret = _auto_convert_to_playwright(arg.data)
       ELSE /\ ret.status = "raise"
            /\ CauseOf(arg) = "unsupported" => Enumerates(ret.exc.msg)
            /\ \A f \in Files :
                 CauseOf(f) \notin {CauseOf(arg), "other"}
                   => load_storage_state(f).exc.type # ret.exc.type

\* C6 amended: a missing file raises FileNotFoundError; a file that is not
\* valid JSON raises RuntimeError "Storage state file is not valid JSON: ...";
\* a document of an unrecognized shape raises RuntimeError "Storage state
\* load failed: ..." whose message enumerates the supported formats.  The
\* missing file is told from the other two by the kind of the error, the
\* other two from each other by the message only.  In every other case the
\* normalized state is returned, unless reading the file, normalizing a
\* cookie or counting the origins raises, which gives RuntimeError "Storage
\* state load failed: ..." too.
C6_MissingFileIsTheOnlyDistinctKind ==
    Done("load_storage_state")
    => CASE CauseOf(arg) = "missing" ->
              /\ ret.status = "raise"
              /\ ret.exc.type = "FileNotFoundError"
              /\ Mentions(ret.exc.msg, arg.path)
         [] CauseOf(arg) = "malformed" ->
              /\ ret.status = "raise"
              /\ ret.exc.type = "RuntimeError"
              /\ Head(ret.exc.msg) = "Storage state file is not valid JSON: "
         [] CauseOf(arg) = "unsupported" ->
              /\ ret.status = "raise"
              /\ ret.exc.type = "RuntimeError"
              /\ Head(ret.exc.msg) = "Storage state load failed: "
              /\ Enumerates(ret.exc.msg)
         [] OTHER ->
              The({IF /\ arg.kind = "json"
                      /\ state.status = "return"
                      /\ Get(state.value.d, "origins", JNull).t
                           \in {"list", "str", "dict"}
                   THEN ret = state
                   ELSE /\ ret.status = "raise"
                        /\ ret.exc.type = "RuntimeError"
                        /\ Head(ret.exc.msg) = "Storage state load failed: "
                        /\ ~Enumerates(ret.exc.msg) :
                   state \in {IF arg.kind = "json"
                              THEN _auto_convert_to_playwright(arg.data)
                              ELSE RaiseExc(Exc("OSError", <<>>))}})

C6_Witness ==
    /\ Done("load_storage_state")
    /\ arg.kind = "json"
    /\ arg.data = MkDict([foo |-> JInt(1)])
    /\ ret.status = "raise"
    /\ ret.exc.type = "RuntimeError"
    /\ Enumerates(ret.exc.msg)

\* C7: normalization is idempotent.  Normalizing the record _normalize_cookie
\* produced gives that record again, and converting the document
\* _auto_convert_to_playwright produced gives that document again.
C7_Idempotent ==
    /\ Normalized => _normalize_cookie(ret.value) = ret
    /\ (Done("_auto_convert_to_playwright") /\ ret.status = "return")
         => _auto_convert_to_playwright(ret.value) = ret

\* A string of decimal digits, the strings the coercion to an integer is about.
IsNumericString(x) ==
    /\ x.t = "str"
    /\ x.s # <<>>
    /\ \A i \in 1..Len(x.s) : Has(DecimalDigits, x.s[i])

\* n is x truncated to an integer (x in tenths).
Truncates(n, x) ==
    IF x >= 0 THEN 10 * n <= x /\ x < 10 * n + 10
    ELSE 10 * n >= x /\ x > 10 * n - 10

\* C8: the expires produced is the value of "expires" if that key is present,
\* else the value of "expirationDate", else -1; a numeric string is coerced to
\* the integer it denotes, a float is truncated to an integer, and 0 (after
\* coercion) is replaced by -1: no normalized cookie has expires equal to 0.
C8_Expires ==
    Normalized
    => LET source ==
               IF "expires" \in DOMAIN arg.d THEN arg.d["expires"]
               ELSE IF "expirationDate" \in DOMAIN arg.d THEN arg.d["expirationDate"]
               ELSE JInt(-1)
           out == ret.value.d.expires
           IsCoerced(v) ==
               IF IsNumericString(source)
               THEN v.t = "int" /\ v.n = DecimalValue(source.s)
               ELSE IF source.t = "float"
               THEN v.t = "int" /\ Truncates(v.n, source.tenths)
               ELSE v = source
       IN  /\ ~EqZero(out)
           /\ \/ IsCoerced(out)
              \/ out = JInt(-1) /\ \E z \in {JInt(0), JBool(FALSE)} : IsCoerced(z)

C8_Witness ==
    /\ Normalized
    /\ "expires" \notin DOMAIN arg.d
    /\ Get(arg.d, "expirationDate", JNull) = JFloat(123457)
    /\ ret.value.d.expires = JInt(12345)

\* The state _auto_convert_to_playwright returned holds one normalized cookie
\* per element of cookies, in the same order, and the given origins.
ConvertedFrom(cookies, origins) ==
    /\ ret.status = "return"
    /\ ret.value.t = "dict"
    /\ DOMAIN ret.value.d = {"cookies", "origins"}
    /\ ret.value.d.origins = origins
    /\ ret.value.d.cookies.t = "list"
    /\ Len(ret.value.d.cookies.l) = Len(cookies)
    /\ \A i \in 1..Len(cookies) :
         Return(ret.value.d.cookies.l[i]) = _normalize_cookie(cookies[i])

\* C9: every document either converts to a session state or fails with the
\* unsupported-format error: a dict whose "cookies" is a list is native (its
\* cookies normalized in order, its origins passed through); otherwise a
\* list whose first element is a dict with "name" and "value" is a cookie
\* array (its elements normalized in order, no origins); anything else is
\* refused as unsupported.
C9_ConvertsOrUnsupported ==
    Done("_auto_convert_to_playwright")
    => IF IsNative(arg)
       THEN ConvertedFrom(arg.d["cookies"].l, Get(arg.d, "origins", JList(<<>>)))
       ELSE IF IsCookieArray(arg)
       THEN ConvertedFrom(arg.l, JList(<<>>))
       ELSE ret = RaiseExc(UnsupportedFormat)

CookieKeys ==
    {"name", "value", "domain", "path", "httpOnly", "secure", "expires",
     "sameSite"}

\* C10: every cookie of a session state returned by the conversion, native
\* or cookie array, is a canonical cookie record (the eight fields) whose
\* expires is an integer.
C10_ExpiresIsInteger ==
    (Done("_auto_convert_to_playwright") /\ ret.status = "return")
    => \A i \in 1..Len(ret.value.d.cookies.l) :
         LET cookie == ret.value.d.cookies.l[i]
         IN  /\ cookie.t = "dict"
             /\ DOMAIN cookie.d = CookieKeys
             /\ cookie.d.expires.t = "int"

====
